---- MODULE Spec2Model ----
(***************************************************************************)
(* State-machine model of the f(x) Protocol v1 core                        *)
(* (docs/pseudocode_stable.py) together with its Stability Pool            *)
(* (docs/rebalance_pool.py).                                               *)
(*                                                                         *)
(* Python floats are modelled as exact rationals <<n, d>> (d > 0, lowest   *)
(* terms); "within tolerance" therefore reads as exact equality here.      *)
(* The model is the integrated configuration in which the core's           *)
(* `from rebalance_pool import ...` succeeds (core imported first); with   *)
(* the fallback stubs every rebalance returns (0,0) before touching any    *)
(* state, so those behaviours are a subset of the ones modelled.           *)
(*                                                                         *)
(* The SPUser record is the only fToken balance of the repository: the     *)
(* host credits what mint_ftoken returns to the minter's ftoken_balance    *)
(* and takes what redeem_ftoken burns out of the redeemer's.               *)
(***************************************************************************)
EXTENDS Integers, Sequences, FiniteSets, TLC

(***************************************************************************)
(* Exact rational arithmetic standing for Python float arithmetic.         *)
(***************************************************************************)
Abs(i) == IF i < 0 THEN -i ELSE i

RECURSIVE GCD(_, _)
GCD(a, b) == IF b = 0 THEN a ELSE GCD(b, a % b)

Frac(n, d) ==
    LET s == IF d < 0 THEN -1 ELSE 1
        g == GCD(Abs(n), Abs(d))
    IN  <<(s * n) \div g, (s * d) \div g>>

R(i) == <<i, 1>>

RAdd(x, y) ==
    LET g == GCD(x[2], y[2])
    IN  Frac(x[1] * (y[2] \div g) + y[1] * (x[2] \div g), (x[2] \div g) * y[2])
RSub(x, y) == RAdd(x, <<-y[1], y[2]>>)
RMul(x, y) ==
    LET g1 == GCD(Abs(x[1]), y[2])
        g2 == GCD(Abs(y[1]), x[2])
    IN  <<(x[1] \div g1) * (y[1] \div g2), (x[2] \div g2) * (y[2] \div g1)>>
RDiv(x, y) == RMul(x, Frac(y[2], y[1]))
RLe(x, y) == RSub(x, y)[1] <= 0
RLt(x, y) == RSub(x, y)[1] < 0
RMax(x, y) == IF RLe(x, y) THEN y ELSE x
RMin(x, y) == IF RLe(x, y) THEN x ELSE y
RAbs(x) == <<Abs(x[1]), x[2]>>

(***************************************************************************)
(* Parameters                                                              *)
(***************************************************************************)
CR_T_L1 == Frac(1306, 1000)
CR_T_L2 == Frac(1206, 1000)
CR_T_L3 == Frac(1144, 1000)
CR_T_L4 == Frac(1050, 1000)
PF_FIXED == R(1)
MAX_STALENESS_SEC == 3600
MAX_REL_STEP == Frac(20, 100)
SP_MAX_BURN_FRAC_CALL == Frac(50, 100)
HARVEST_BOUNTY_BPS == 100
BPS == 10000
\* EPS = 1e-12 = 1 / (EPS_INV_ROOT * EPS_INV_ROOT)
EPS_INV_ROOT == 1000000
\* check_invariant's default tol = 1e-6 = 1 / TOL_INV
TOL_INV == 1000000

\* x <= EPS, i.e. d/n >= 10^12 for a positive x = n/d
LeEps(x) ==
    \/ x[1] <= 0
    \/ (x[2] \div x[1]) \div EPS_INV_ROOT >= EPS_INV_ROOT

\* x > y + EPS
GtPlusEps(x, y) == ~LeEps(RSub(x, y))

(***************************************************************************)
(* Input domains and bounds of the model                                   *)
(***************************************************************************)
Users == {"u1", "u2"}
PriceInputs == {Frac(8, 5), R(2)}
TsInputs == {1}
OracleTsInputs == {0, 1, MAX_STALENESS_SEC + 1, MAX_STALENESS_SEC + 2}
MintInputs == {R(50)}
RedeemInputs == {R(40)}
DepositInputs == {R(100)}
WithdrawInputs == {R(0), R(100)}
TargetInputs == {R(1), Frac(4, 3)}
YieldInputs == {R(100)}
\* (f_burn, payout_sui) pairs handed to sp_controller_rebalance
BurnRequests == {R(-5), R(0), R(10), R(80)}
PayoutRequests == {R(-5), R(0), R(10)}

\* At most MaxEvents mints, executed burns and indexed harvests in a behaviour
MaxEvents == 3

(***************************************************************************)
(* State                                                                   *)
(***************************************************************************)
VARIABLES
    Nf, Nx, Pf, Px, p_sui, last_oracle_ts, reserve_sui,     \* core globals
    sp_scale, sp_scaled_total, sp_index_sui_scaled,         \* SP globals
    sp_obligation_sui,
    users,                                                  \* SPUser records
    direct_only,                                            \* history: see C2
    nEvents,                                                \* history: bounded counter
    net_indexed_sui                                         \* history: see C20

core_vars == <<Nf, Nx, Pf, Px, p_sui, last_oracle_ts, reserve_sui>>
sp_vars == <<sp_scale, sp_scaled_total, sp_index_sui_scaled, sp_obligation_sui>>
count_vars == <<nEvents>>
vars == <<core_vars, sp_vars, users, direct_only, count_vars, net_indexed_sui>>

SPUser == [ftoken_balance |-> R(0), sp_scaled |-> R(0), sp_index_snap |-> R(0)]

\* The core's own module global `sp_obligation_sui`: `from rebalance_pool import
\* sp_obligation_sui` binds the float 0.0 at import time and nothing in the core
\* rebinds it, so the core never sees the pool's later assignments.
core_sp_obligation_sui == R(0)

Init ==
    /\ Nf = R(0) /\ Nx = R(0) /\ Pf = PF_FIXED /\ Px = R(0)
    /\ p_sui = R(0) /\ last_oracle_ts = 0 /\ reserve_sui = R(0)
    /\ sp_scale = R(1) /\ sp_scaled_total = R(0)
    /\ sp_index_sui_scaled = R(0) /\ sp_obligation_sui = R(0)
    /\ users = [u \in Users |-> SPUser]
    /\ direct_only = TRUE
    /\ nEvents = 0
    /\ net_indexed_sui = R(0)

(***************************************************************************)
(* Core helpers                                                            *)
(***************************************************************************)
reserve_usd(res, p) == RMul(res, p)

reserve_net_sui(res) == RMax(R(0), RSub(res, core_sp_obligation_sui))

reserve_net_usd(res, p) == RMul(reserve_net_sui(res), p)

\* collateral_ratio() >= t, with denom = max(EPS, Nf * Pf)
cr_at_least(t, res, p, nf, pf) ==
    LET v == RMul(nf, pf)
        net == reserve_net_usd(res, p)
    IN  IF LeEps(v)
        THEN \* net / EPS >= t
             IF t[1] <= 0 THEN TRUE
             ELSE IF net[1] <= 0 THEN FALSE
             ELSE LET y == RDiv(net, t)       \* net/t >= EPS
                      q == y[2] \div y[1]
                  IN  \/ q \div EPS_INV_ROOT < EPS_INV_ROOT
                      \/ /\ q \div EPS_INV_ROOT = EPS_INV_ROOT
                         /\ q % EPS_INV_ROOT = 0
                         /\ y[2] % y[1] = 0
        ELSE RLe(t, RDiv(net, v))

\* collateral_ratio() = t.  With Nf * Pf <= EPS the ratio is reserve_net_usd()
\* / 1e-12, which is 0 or above any target the model uses.
cr_equals(t, res, p, nf, pf) ==
    LET v == RMul(nf, pf)
        net == reserve_net_usd(res, p)
    IN  IF LeEps(v) THEN net = R(0) /\ t = R(0)
        ELSE RDiv(net, v) = t

\* _update_px: the new Px
update_px(res, p, nf, pf, nx, px) ==
    IF LeEps(nx) THEN px
    ELSE RMax(R(0), RDiv(RSub(reserve_usd(res, p), RMul(nf, pf)), nx))

\* current_level(): the mode the collateral ratio selects
current_level(res, p, nf, pf) ==
    IF cr_at_least(CR_T_L1, res, p, nf, pf) THEN 1
    ELSE IF cr_at_least(CR_T_L2, res, p, nf, pf) THEN 2
    ELSE IF cr_at_least(CR_T_L3, res, p, nf, pf) THEN 3
    ELSE IF cr_at_least(CR_T_L4, res, p, nf, pf) THEN 4
    ELSE 5

(***************************************************************************)
(* Every operation is first given as an operator <name>_run(args) that     *)
(* computes, from the current state, the outcome of one call: `err` is the *)
(* exception raised ("" when the call returned), `ret` what it returned,   *)
(* and the other fields are the values the call leaves in the globals it   *)
(* writes (Python rolls nothing back when an exception is raised).  The    *)
(* action <name>(args) then installs that outcome.                         *)
(***************************************************************************)

(***************************************************************************)
(* Oracle + NAV updater                                                    *)
(***************************************************************************)
too_stale(now_ts, last_ts) == now_ts - last_ts > MAX_STALENESS_SEC

\* rel = abs(p_new / max(EPS, p_sui) - 1.0); rel > MAX_REL_STEP.  With
\* p_sui <= EPS the quotient of any representable p_new is 0 or above 10^6.
step_too_large(p_new, p_old) ==
    IF LeEps(p_old) THEN TRUE
    ELSE RLt(MAX_REL_STEP, RAbs(RSub(RDiv(p_new, p_old), R(1))))

\* `if last_oracle_ts != 0:`
oracle_checked(last_ts) == last_ts # 0

update_from_oracle_run(p_new, now_ts) ==
    LET err == IF ~oracle_checked(last_oracle_ts) THEN ""
               ELSE IF too_stale(now_ts, last_oracle_ts) THEN "oracle too stale"
               ELSE IF step_too_large(p_new, p_sui) THEN "oracle step too large"
               ELSE ""
    IN  IF err # ""
        THEN [err |-> err, p_sui |-> p_sui, last_oracle_ts |-> last_oracle_ts,
              Pf |-> Pf, Px |-> Px]
        ELSE [err |-> "", p_sui |-> p_new, last_oracle_ts |-> now_ts,
              Pf |-> PF_FIXED,
              Px |-> update_px(reserve_sui, p_new, Nf, PF_FIXED, Nx, Px)]

update_from_oracle(p_new, now_ts) ==
    LET r == update_from_oracle_run(p_new, now_ts)
        pristine == last_oracle_ts = 0 /\ reserve_sui = R(0) /\ Nf = R(0)
    IN  /\ p_sui' = r.p_sui
        /\ last_oracle_ts' = r.last_oracle_ts
        /\ Pf' = r.Pf
        /\ Px' = r.Px
        /\ direct_only' = (direct_only /\ (r.err # "" \/ pristine))
        /\ UNCHANGED <<Nf, Nx, reserve_sui, sp_vars, users, count_vars,
                       net_indexed_sui>>

(***************************************************************************)
(* Mint / Redeem                                                           *)
(***************************************************************************)
\* Mutant of issued_f_of: the oracle price left out of the conversion
issued_f_of_noprice(deposit_sui, p, pf) == RMul(deposit_sui, pf)

issued_f_of(deposit_sui, p, pf) == RDiv(RMul(deposit_sui, p), pf)

mint_ftoken_run(deposit_sui) ==
    IF deposit_sui[1] <= 0
    THEN [err |-> "bad amount", ret |-> R(0), reserve_sui |-> reserve_sui,
          Nf |-> Nf, Px |-> Px]
    ELSE LET issued_f == issued_f_of(deposit_sui, p_sui, Pf)
             res2 == RAdd(reserve_sui, deposit_sui)
             nf2 == RAdd(Nf, issued_f)
         IN  [err |-> "", ret |-> issued_f, reserve_sui |-> res2, Nf |-> nf2,
              Px |-> update_px(res2, p_sui, nf2, Pf, Nx, Px)]

\* u is the holder the host credits the issued fTokens to
mint_ftoken(u, deposit_sui) ==
    LET r == mint_ftoken_run(deposit_sui)
    IN  /\ nEvents < MaxEvents
        /\ r.err = ""
        /\ reserve_sui' = r.reserve_sui
        /\ Nf' = r.Nf
        /\ Px' = r.Px
        /\ users' = [users EXCEPT ![u].ftoken_balance = RAdd(@, r.ret)]
        /\ nEvents' = nEvents + 1
        /\ UNCHANGED <<Nx, Pf, p_sui, last_oracle_ts, sp_vars, direct_only,
                       net_indexed_sui>>

sui_out_of(burn_f, p, pf) == RDiv(RMul(burn_f, pf), p)

\* `if sui_out > reserve_net_sui(): raise`
redeem_blocked(sui_out, res) == RLt(reserve_net_sui(res), sui_out)

redeem_ftoken_run(burn_f) ==
    IF burn_f[1] <= 0 \/ RLt(Nf, burn_f)
    THEN [err |-> "bad amount", ret |-> R(0), reserve_sui |-> reserve_sui,
          Nf |-> Nf, Px |-> Px]
    ELSE LET sui_out == sui_out_of(burn_f, p_sui, Pf)
             res2 == RSub(reserve_sui, sui_out)
             nf2 == RSub(Nf, burn_f)
         IN  IF redeem_blocked(sui_out, reserve_sui)
             THEN [err |-> "insufficient reserve net of SP obligations",
                   ret |-> R(0), reserve_sui |-> reserve_sui, Nf |-> Nf, Px |-> Px]
             ELSE [err |-> "", ret |-> sui_out, reserve_sui |-> res2, Nf |-> nf2,
                   Px |-> update_px(res2, p_sui, nf2, Pf, Nx, Px)]

\* u is the holder whose free fTokens the host takes for the burn
redeem_ftoken(u, burn_f) ==
    LET r == redeem_ftoken_run(burn_f)
    IN  /\ RLe(burn_f, users[u].ftoken_balance)
        /\ reserve_sui' = r.reserve_sui
        /\ Nf' = r.Nf
        /\ Px' = r.Px
        /\ users' = IF r.err = ""
                    THEN [users EXCEPT ![u].ftoken_balance = RSub(@, burn_f)]
                    ELSE users
        /\ UNCHANGED <<Nx, Pf, p_sui, last_oracle_ts, sp_vars, direct_only, count_vars,
                       net_indexed_sui>>

(***************************************************************************)
(* Stability Pool: views and controller hook                               *)
(***************************************************************************)
sp_total_f(scaled_total, scale) == RMul(scaled_total, scale)

sp_quote_burn_cap(scaled_total, scale) ==
    RMul(SP_MAX_BURN_FRAC_CALL, sp_total_f(scaled_total, scale))

\* Mutant of allowed_burn_of: the request taken as it is, without the cap
allowed_burn_nocap(f_burn, f_total_pre) == f_burn

\* allowed_burn = min(f_burn, SP_MAX_BURN_FRAC_CALL * f_total_pre)
allowed_burn_of(f_burn, f_total_pre) ==
    RMin(f_burn, RMul(SP_MAX_BURN_FRAC_CALL, f_total_pre))

\* sui_per_f = payout_sui / f_burn; allowed_payout = sui_per_f * allowed_burn
allowed_payout_of(payout_sui, f_burn, allowed_burn) ==
    RMul(RDiv(payout_sui, f_burn), allowed_burn)

\* Mutant of index_delta: divides by the actual pool total, not the scaled one
index_delta_actual(amount, scaled_total) ==
    RDiv(amount, sp_total_f(scaled_total, sp_scale))

\* delta = amount / sp_scaled_total
index_delta(amount, scaled_total) == RDiv(amount, scaled_total)

\* Mutant of scale_after: the burnt fraction added instead of taken off
scale_after_grow(scale, allowed_burn, f_total_pre) ==
    RMul(scale, RAdd(R(1), RDiv(allowed_burn, f_total_pre)))

\* Mutant of scale_after: the burnt fraction taken off the scale, not off 1
scale_after_minus(scale, allowed_burn, f_total_pre) ==
    RMax(R(0), RSub(scale, RDiv(allowed_burn, f_total_pre)))

\* frac = allowed_burn / f_total_pre; sp_scale *= max(0.0, 1.0 - frac)
scale_after(scale, allowed_burn, f_total_pre) ==
    RMul(scale, RMax(R(0), RSub(R(1), RDiv(allowed_burn, f_total_pre))))

sp_controller_rebalance_run(f_burn, payout_sui) ==
    LET f_total_pre == sp_total_f(sp_scaled_total, sp_scale)
        allowed_burn == allowed_burn_of(f_burn, f_total_pre)
        allowed_payout == allowed_payout_of(payout_sui, f_burn, allowed_burn)
        noop == [ret |-> <<R(0), R(0)>>, sp_index_sui_scaled |-> sp_index_sui_scaled,
                 sp_obligation_sui |-> sp_obligation_sui, sp_scale |-> sp_scale]
    IN  IF LeEps(f_total_pre) \/ LeEps(f_burn) THEN noop
        ELSE IF LeEps(allowed_burn) THEN noop
        ELSE IF LeEps(sp_scaled_total) THEN noop
        ELSE [ret |-> <<allowed_burn, allowed_payout>>,
              sp_index_sui_scaled |->
                  RAdd(sp_index_sui_scaled, index_delta(allowed_payout, sp_scaled_total)),
              sp_obligation_sui |-> RAdd(sp_obligation_sui, allowed_payout),
              sp_scale |-> scale_after(sp_scale, allowed_burn, f_total_pre)]

(***************************************************************************)
(* L3 protocol rebalance                                                   *)
(***************************************************************************)
\* Mutant of f_burn_needed_for_target: the net reserve not converted to USD
f_burn_needed_noprice(target_cr, res, p, nf, pf) ==
    RMax(R(0), RSub(nf, RDiv(reserve_net_sui(res), RMul(target_cr, pf))))

\* Mutant of f_burn_needed_for_target: the target ratio applied twice
f_burn_needed_twice(target_cr, res, p, nf, pf) ==
    RMax(R(0), RSub(nf, RDiv(RMul(reserve_net_sui(res), p),
                             RMul(RMul(target_cr, target_cr), pf))))

\* nf_target = (reserve_net_sui() * p_sui) / (target_cr * Pf); max(0.0, Nf - nf_target)
f_burn_needed_for_target(target_cr, res, p, nf, pf) ==
    RMax(R(0), RSub(nf, RDiv(RMul(reserve_net_sui(res), p), RMul(target_cr, pf))))

\* f_burn = max(0.0, min(need, cap_sp, Nf))
f_burn_of(need, cap_sp, nf) == RMax(R(0), RMin(need, RMin(cap_sp, nf)))

protocol_rebalance_L3_to_target_run(target_cr) ==
    LET same(err) == [err |-> err, ret |-> <<R(0), R(0)>>, Nf |-> Nf, Px |-> Px,
                      sp_index_sui_scaled |-> sp_index_sui_scaled,
                      sp_obligation_sui |-> sp_obligation_sui, sp_scale |-> sp_scale]
        need == f_burn_needed_for_target(target_cr, reserve_sui, p_sui, Nf, Pf)
        cap_sp == sp_quote_burn_cap(sp_scaled_total, sp_scale)
        f_burn == f_burn_of(need, cap_sp, Nf)
        payout_sui == RDiv(RMul(f_burn, Pf), p_sui)
        sp == sp_controller_rebalance_run(f_burn, payout_sui)
        burned == sp.ret[1]
        nf2 == RSub(Nf, burned)
    IN  IF LeEps(p_sui) THEN same("oracle not set")
        ELSE IF LeEps(Nf) THEN same("")
        ELSE IF target_cr[1] <= 0 THEN same("bad target")
        ELSE IF LeEps(need) THEN same("")
        ELSE IF LeEps(f_burn) THEN same("")
        ELSE IF LeEps(burned)
        THEN [err |-> "", ret |-> <<R(0), R(0)>>, Nf |-> Nf, Px |-> Px,
              sp_index_sui_scaled |-> sp.sp_index_sui_scaled,
              sp_obligation_sui |-> sp.sp_obligation_sui, sp_scale |-> sp.sp_scale]
        ELSE [err |-> "", ret |-> sp.ret, Nf |-> nf2,
              Px |-> update_px(reserve_sui, p_sui, nf2, Pf, Nx, Px),
              sp_index_sui_scaled |-> sp.sp_index_sui_scaled,
              sp_obligation_sui |-> sp.sp_obligation_sui, sp_scale |-> sp.sp_scale]

\* Mutant of protocol_rebalance_L3_to_target: the indexed payout is also paid
\* out of the reserve at once
protocol_rebalance_L3_to_target_paying(target_cr) ==
    LET r == protocol_rebalance_L3_to_target_run(target_cr)
        burnt == r.ret[1][1] > 0
    IN  /\ burnt => nEvents < MaxEvents
        /\ Nf' = r.Nf
        /\ Px' = r.Px
        /\ sp_index_sui_scaled' = r.sp_index_sui_scaled
        /\ sp_obligation_sui' = r.sp_obligation_sui
        /\ sp_scale' = r.sp_scale
        /\ nEvents' = IF burnt THEN nEvents + 1 ELSE nEvents
        /\ direct_only' = (direct_only /\ ~burnt)
        /\ net_indexed_sui' =
               RAdd(net_indexed_sui, RSub(r.sp_obligation_sui, sp_obligation_sui))
        /\ reserve_sui' = RSub(reserve_sui, r.ret[2])
        /\ UNCHANGED <<Nx, Pf, p_sui, last_oracle_ts, sp_scaled_total, users>>

protocol_rebalance_L3_to_target(target_cr) ==
    LET r == protocol_rebalance_L3_to_target_run(target_cr)
        burnt == r.ret[1][1] > 0
    IN  /\ burnt => nEvents < MaxEvents
        /\ Nf' = r.Nf
        /\ Px' = r.Px
        /\ sp_index_sui_scaled' = r.sp_index_sui_scaled
        /\ sp_obligation_sui' = r.sp_obligation_sui
        /\ sp_scale' = r.sp_scale
        /\ nEvents' = IF burnt THEN nEvents + 1 ELSE nEvents
        /\ direct_only' = (direct_only /\ ~burnt)
        /\ net_indexed_sui' =
               RAdd(net_indexed_sui, RSub(r.sp_obligation_sui, sp_obligation_sui))
        /\ UNCHANGED <<Nx, Pf, p_sui, last_oracle_ts, reserve_sui, sp_scaled_total,
                       users>>

(***************************************************************************)
(* Stability Pool: user flows                                              *)
(***************************************************************************)
\* _settle_user: owed = user.sp_scaled * (sp_index_sui_scaled - user.sp_index_snap)
owed_of(usr, index) == RMul(usr.sp_scaled, RSub(index, usr.sp_index_snap))

\* _settle_user: the value returned, max(0.0, owed)
settle_return(usr, index) == RMax(R(0), owed_of(usr, index))

\* Mutant of settle_user: the snapshot left where it was
settle_user_keep(usr, index) == usr

\* _settle_user: the record it leaves (user.sp_index_snap = sp_index_sui_scaled)
settle_user(usr, index) == [usr EXCEPT !.sp_index_snap = index]

\* sp_deposit: scaled = f_amount / sp_scale
to_scaled(f_amount, scale) == RDiv(f_amount, scale)

sp_deposit_run(us, scaled_total, u, f_amount) ==
    LET usr == us[u]
        settled == settle_user(usr, sp_index_sui_scaled)
        scaled == to_scaled(f_amount, sp_scale)
    IN  IF f_amount[1] <= 0 \/ RLt(usr.ftoken_balance, f_amount)
        THEN [err |-> "bad amount", users |-> us, sp_scaled_total |-> scaled_total]
        ELSE [err |-> "",
              users |-> [us EXCEPT ![u] =
                  [settled EXCEPT !.ftoken_balance = RSub(@, f_amount),
                                  !.sp_scaled = RAdd(@, scaled)]],
              sp_scaled_total |-> RAdd(scaled_total, scaled)]

sp_deposit(u, f_amount) ==
    LET r == sp_deposit_run(users, sp_scaled_total, u, f_amount)
    IN  /\ users' = r.users
        /\ sp_scaled_total' = r.sp_scaled_total
        /\ UNCHANGED <<core_vars, sp_scale, sp_index_sui_scaled, sp_obligation_sui,
                       direct_only, count_vars, net_indexed_sui>>

\* Mutant of available_of: the balance counted twice
available_of_twice(usr, scale) == RMul(R(2), RMul(usr.sp_scaled, scale))

\* available = user.sp_scaled * sp_scale
available_of(usr, scale) == RMul(usr.sp_scaled, scale)

\* Mutant of withdrawn_scaled: multiplies by the scale instead of dividing
withdrawn_scaled_times(f_amount, scale) == RMul(f_amount, scale)

\* sp_withdraw: scaled = f_amount / sp_scale
withdrawn_scaled(f_amount, scale) == RDiv(f_amount, scale)

sp_withdraw_run(us, scaled_total, u, f_amount) ==
    LET usr == us[u]
        settled == settle_user(usr, sp_index_sui_scaled)
        scaled == withdrawn_scaled(f_amount, sp_scale)
    IN  IF f_amount[1] <= 0
        THEN [err |-> "bad amount", users |-> us, sp_scaled_total |-> scaled_total]
        ELSE IF GtPlusEps(f_amount, available_of(settled, sp_scale))
        THEN [err |-> "insufficient SP balance",
              users |-> [us EXCEPT ![u] = settled],
              sp_scaled_total |-> scaled_total]
        ELSE [err |-> "",
              users |-> [us EXCEPT ![u] =
                  [settled EXCEPT !.sp_scaled = RSub(@, scaled),
                                  !.ftoken_balance = RAdd(@, f_amount)]],
              sp_scaled_total |-> RSub(scaled_total, scaled)]

sp_withdraw(u, f_amount) ==
    LET r == sp_withdraw_run(users, sp_scaled_total, u, f_amount)
    IN  /\ users' = r.users
        /\ sp_scaled_total' = r.sp_scaled_total
        /\ UNCHANGED <<core_vars, sp_scale, sp_index_sui_scaled, sp_obligation_sui,
                       direct_only, count_vars, net_indexed_sui>>

\* sp_claim_pay_sui raises "insufficient reserve to honor SP claim"
pay_refused(amount_sui, res) == amount_sui[1] > 0 /\ GtPlusEps(amount_sui, res)

\* sp_claim_pay_sui: the reserve_sui it leaves
pay_reserve(amount_sui, res) == IF amount_sui[1] <= 0 THEN res ELSE RSub(res, amount_sui)

\* sp_obligation_sui -= owed; if sp_obligation_sui < 0: sp_obligation_sui = 0.0
obligation_after_claim(ob, owed) ==
    LET ob2 == RSub(ob, owed) IN IF ob2[1] < 0 THEN R(0) ELSE ob2

\* core_pay_sui_cb is sp_claim_pay_sui; cb_fails stands for a payment executor
\* that raises (the transfer it is to carry out fails) before touching reserve_sui.
sp_claim_run(u, cb_fails) ==
    LET usr == users[u]
        owed == settle_return(usr, sp_index_sui_scaled)
        settled == [users EXCEPT ![u] = settle_user(usr, sp_index_sui_scaled)]
        stop(err) == [err |-> err, ret |-> R(0), users |-> settled,
                      reserve_sui |-> reserve_sui,
                      sp_obligation_sui |-> sp_obligation_sui]
    IN  IF LeEps(owed) THEN stop("")
        ELSE IF cb_fails THEN stop("payment failed")
        ELSE IF pay_refused(owed, reserve_sui)
        THEN stop("insufficient reserve to honor SP claim")
        ELSE [err |-> "", ret |-> owed, users |-> settled,
              reserve_sui |-> pay_reserve(owed, reserve_sui),
              sp_obligation_sui |-> obligation_after_claim(sp_obligation_sui, owed)]

sp_claim(u, cb_fails) ==
    LET r == sp_claim_run(u, cb_fails)
    IN  /\ users' = r.users
        /\ reserve_sui' = r.reserve_sui
        /\ sp_obligation_sui' = r.sp_obligation_sui
        /\ net_indexed_sui' = RSub(net_indexed_sui, r.ret)
        /\ UNCHANGED <<Nf, Nx, Pf, Px, p_sui, last_oracle_ts, sp_scale, sp_scaled_total,
                       sp_index_sui_scaled, direct_only, count_vars>>

(***************************************************************************)
(* Yield harvest indexing                                                  *)
(***************************************************************************)
\* bounty = (yield_sui * HARVEST_BOUNTY_BPS) / BPS
bounty_of(yield_sui) == Frac(yield_sui[1] * HARVEST_BOUNTY_BPS, yield_sui[2] * BPS)

sp_index_harvest_run(yield_sui) ==
    LET bounty == bounty_of(yield_sui)
        to_pool == RSub(yield_sui, bounty)
    IN  IF LeEps(yield_sui) \/ LeEps(sp_scaled_total)
        THEN [ret |-> R(0), sp_index_sui_scaled |-> sp_index_sui_scaled,
              sp_obligation_sui |-> sp_obligation_sui]
        ELSE [ret |-> bounty,
              sp_index_sui_scaled |->
                  RAdd(sp_index_sui_scaled, index_delta(to_pool, sp_scaled_total)),
              sp_obligation_sui |-> RAdd(sp_obligation_sui, to_pool)]

sp_index_harvest(yield_sui) ==
    LET r == sp_index_harvest_run(yield_sui)
        indexed == r.sp_obligation_sui # sp_obligation_sui
    IN  /\ indexed => nEvents < MaxEvents
        /\ sp_index_sui_scaled' = r.sp_index_sui_scaled
        /\ sp_obligation_sui' = r.sp_obligation_sui
        /\ nEvents' = IF indexed THEN nEvents + 1 ELSE nEvents
        /\ direct_only' = (direct_only /\ ~indexed)
        /\ net_indexed_sui' =
               RAdd(net_indexed_sui, RSub(r.sp_obligation_sui, sp_obligation_sui))
        /\ UNCHANGED <<core_vars, sp_scale, sp_scaled_total, users>>

\* What sp_claim would pay user u now (the callback succeeding)
claimable(us, index, u) == settle_return(us[u], index)

(***************************************************************************)
(* Invariant & solvency checks of the core                                 *)
(***************************************************************************)
\* check_invariant(tol): abs(lhs - rhs) <= tol, with tol = 1e-6 = 1 / TOL_INV
check_invariant ==
    LET lhs == reserve_usd(reserve_sui, p_sui)
        rhs == RAdd(RMul(Nf, Pf), RMul(Nx, Px))
        diff == RAbs(RSub(lhs, rhs))
    IN  diff[1] = 0 \/ diff[2] \div diff[1] >= TOL_INV

\* check_solvency() as the core evaluates it, on its own sp_obligation_sui
check_solvency == ~GtPlusEps(core_sp_obligation_sui, reserve_sui)

\* reserve_sui + EPS >= sp_obligation_sui on the Stability Pool's obligation
reserve_covers_obligation(res, ob) == ~GtPlusEps(ob, res)

(***************************************************************************)
(* Specification                                                           *)
(***************************************************************************)
Next ==
    \/ \E p \in PriceInputs, t \in TsInputs : update_from_oracle(p, t)
    \/ \E u \in Users, a \in MintInputs : mint_ftoken(u, a)
    \/ \E u \in Users, a \in RedeemInputs : redeem_ftoken(u, a)
    \/ \E t \in TargetInputs : protocol_rebalance_L3_to_target(t)
    \/ \E u \in Users, f \in BOOLEAN : sp_claim(u, f)
    \/ \E u \in Users, a \in DepositInputs : sp_deposit(u, a)
    \/ \E u \in Users, a \in WithdrawInputs : sp_withdraw(u, a)
    \/ \E y \in YieldInputs : sp_index_harvest(y)

Spec == Init /\ [][Next]_vars

\* The oracle on its own, with timestamps on both sides of the staleness bound
NextOracle ==
    \/ \E p \in PriceInputs, t \in OracleTsInputs : update_from_oracle(p, t)
    \/ \E u \in Users, a \in MintInputs : mint_ftoken(u, a)
    \/ \E u \in Users, a \in RedeemInputs : redeem_ftoken(u, a)

SpecOracle == Init /\ [][NextOracle]_vars
(***************************************************************************)
(* Claims                                                                  *)
(***************************************************************************)

\* C1: at every operation boundary the reserve covers the Stability Pool's
\* obligation: reserve_sui + EPS >= sp_obligation_sui.
C1_Solvency == reserve_covers_obligation(reserve_sui, sp_obligation_sui)

\* C2: as long as only mint, redeem, deposit, withdraw and claim have run on a
\* priced system, reserve_sui * p_sui equals Nf * Pf + Nx * Px within tolerance.
C2_ValueConservation == direct_only => check_invariant

\* C2 witness: two mints, a redeem and a deposit have run and nothing else.
C2_Witness ==
    /\ direct_only
    /\ nEvents = 2
    /\ RLt(R(0), reserve_sui) /\ RLt(reserve_sui, R(100))
    /\ RLt(R(0), sp_scaled_total)
    /\ RLt(R(0), Nf)

\* C3: a claim whose payment fails leaves the ledger as it was: the user's
\* record (index snapshot included) and sp_obligation_sui are unchanged.
C3_FailedClaimChangesNothing ==
    [][\A u \in Users, f \in BOOLEAN :
          (sp_claim(u, f) /\ sp_claim_run(u, f).err # "")
              => (users' = users /\ sp_obligation_sui' = sp_obligation_sui)]_vars

\* C4: a successful deposit or withdraw does not reduce what the user's next
\* claim pays.
C4_SettleKeepsCredit ==
    [][\A u \in Users :
          (\/ \E a \in DepositInputs :
                 /\ sp_deposit(u, a)
                 /\ sp_deposit_run(users, sp_scaled_total, u, a).err = ""
           \/ \E a \in WithdrawInputs :
                 /\ sp_withdraw(u, a)
                 /\ sp_withdraw_run(users, sp_scaled_total, u, a).err = "")
              => RLe(claimable(users, sp_index_sui_scaled, u),
                     claimable(users', sp_index_sui_scaled', u))]_vars

\* Sum over the users in S of what each one's next claim pays
RECURSIVE SumClaimable(_, _, _)
SumClaimable(S, us, index) ==
    IF S = {} THEN R(0)
    ELSE LET u == CHOOSE x \in S : TRUE
         IN  RAdd(claimable(us, index, u), SumClaimable(S \ {u}, us, index))

AllDepositorsSettled ==
    \A u \in Users :
        RLt(R(0), users[u].sp_scaled) => users[u].sp_index_snap = sp_index_sui_scaled

\* C5: when a burn with payout P is executed while every depositor is settled,
\* each user's accrued credit becomes sp_scaled * P / sp_scaled_total, and the
\* credits sum to P, the amount added to sp_obligation_sui.
C5_BurnCreditsProRata ==
    [][\A t \in TargetInputs :
          LET r == protocol_rebalance_L3_to_target_run(t)
              P == r.ret[2]
          IN  (/\ sp_scale' # sp_scale
               /\ AllDepositorsSettled
               /\ protocol_rebalance_L3_to_target(t)
               /\ RLt(R(0), r.ret[1]))
              => /\ \A u \in Users :
                       claimable(users', sp_index_sui_scaled', u)
                           = RDiv(RMul(users[u].sp_scaled, P), sp_scaled_total)
                 /\ SumClaimable(Users, users', sp_index_sui_scaled') = P
                 /\ RSub(sp_obligation_sui', sp_obligation_sui) = P]_vars

\* C5 witness: the spec's scenario - two depositors of 100 each, a burn of 50 at
\* price 2: 12.5 accrued each, obligation 25, scale 0.75.
C5_Witness ==
    /\ p_sui = R(2)
    /\ \A u \in Users :
          /\ users[u].sp_scaled = R(100)
          /\ claimable(users, sp_index_sui_scaled, u) = Frac(25, 2)
    /\ sp_obligation_sui = R(25)
    /\ sp_scale = Frac(3, 4)
    /\ Nf = R(150)

\* C6: a redeem succeeds only if its payout does not exceed reserve_sui minus
\* the Stability Pool's current sp_obligation_sui; a failed one changes nothing.
C6_RedeemSparesObligation ==
    [][\A u \in Users, a \in RedeemInputs :
          LET r == redeem_ftoken_run(a)
          IN  redeem_ftoken(u, a)
              => IF r.err = ""
                 THEN RLe(r.ret, RSub(reserve_sui, sp_obligation_sui))
                 ELSE UNCHANGED vars]_vars

\* C7: protocol_rebalance_L3_to_target(target_cr) with target_cr > 0, called
\* where collateral_ratio() >= target_cr, returns (0, 0) and changes nothing.
C7_NoOpAtTarget ==
    \A t \in TargetInputs :
        (RLt(R(0), t) /\ cr_at_least(t, reserve_sui, p_sui, Nf, Pf))
            => LET r == protocol_rebalance_L3_to_target_run(t)
               IN  /\ r.err = ""
                   /\ r.ret = <<R(0), R(0)>>
                   /\ r.Nf = Nf /\ r.Px = Px
                   /\ r.sp_scale = sp_scale
                   /\ r.sp_index_sui_scaled = sp_index_sui_scaled
                   /\ r.sp_obligation_sui = sp_obligation_sui

\* C7 witness: the ratio is at a target while there is supply outstanding and
\* the pool holds deposits a burn could take.
C7_Witness ==
    /\ \E t \in TargetInputs : cr_at_least(t, reserve_sui, p_sui, Nf, Pf)
    /\ RLt(R(0), Nf)
    /\ RLt(R(0), sp_total_f(sp_scaled_total, sp_scale))
    /\ RLt(sp_scale, R(1))

\* C8: once an update has been accepted, an update at exactly MAX_STALENESS_SEC
\* after the last one (step within MAX_REL_STEP) is accepted, one at
\* MAX_STALENESS_SEC + 1 is rejected as stale, and a rejected update leaves
\* p_sui, last_oracle_ts, Pf and Px unchanged.
C8_StalenessBoundary ==
    \A p \in PriceInputs, t \in OracleTsInputs :
        LET r == update_from_oracle_run(p, t)
        IN  RLt(R(0), p_sui)
            => /\ (t - last_oracle_ts = MAX_STALENESS_SEC /\ ~step_too_large(p, p_sui))
                      => r.err = ""
               /\ (t - last_oracle_ts = MAX_STALENESS_SEC + 1)
                      => r.err = "oracle too stale"
               /\ r.err # ""
                      => /\ r.p_sui = p_sui /\ r.last_oracle_ts = last_oracle_ts
                         /\ r.Pf = Pf /\ r.Px = Px

\* C9: sp_scale never increases and stays positive, sp_index_sui_scaled never
\* decreases; only a rebalance changes sp_scale, only a rebalance or a harvest
\* changes sp_index_sui_scaled.
C9_ScaleAndIndexMonotone ==
    [][/\ RLe(sp_scale', sp_scale)
       /\ RLt(R(0), sp_scale')
       /\ RLe(sp_index_sui_scaled, sp_index_sui_scaled')
       /\ sp_scale' # sp_scale
              => \E t \in TargetInputs : protocol_rebalance_L3_to_target(t)
       /\ sp_index_sui_scaled' # sp_index_sui_scaled
              => \/ \E t \in TargetInputs : protocol_rebalance_L3_to_target(t)
                 \/ \E y \in YieldInputs : sp_index_harvest(y)]_vars

\* C9 witness: a burn has shrunk the scale and a burn and a harvest have both
\* raised the index.
C9_Witness ==
    /\ RLt(sp_scale, R(1))
    /\ RLt(R(99), sp_obligation_sui)
    /\ RLt(R(0), sp_index_sui_scaled)
    /\ nEvents = 3

\* C10: sp_deposit(u, a) with 0 < a <= u.ftoken_balance immediately followed by
\* sp_withdraw(u, a) succeeds and restores u.ftoken_balance, u.sp_scaled and
\* sp_scaled_total.
C10_DepositWithdrawRoundTrip ==
    \A u \in Users, a \in DepositInputs :
        (RLt(R(0), a) /\ RLe(a, users[u].ftoken_balance))
            => LET d == sp_deposit_run(users, sp_scaled_total, u, a)
                   w == sp_withdraw_run(d.users, d.sp_scaled_total, u, a)
               IN  /\ d.err = "" /\ w.err = ""
                   /\ w.users[u].ftoken_balance = users[u].ftoken_balance
                   /\ w.users[u].sp_scaled = users[u].sp_scaled
                   /\ w.sp_scaled_total = sp_scaled_total

\* C10 witness: a user can deposit at a scale a burn has shrunk, on top of a
\* stake already in the pool.
C10_Witness ==
    \E u \in Users, a \in DepositInputs :
        /\ RLe(a, users[u].ftoken_balance)
        /\ RLt(sp_scale, R(1))
        /\ RLt(R(0), users[u].sp_scaled)

C12_UnsetPriceNoOp ==
    \A t \in TargetInputs :
        (RLt(R(0), t) /\ p_sui = R(0))
            => LET r == protocol_rebalance_L3_to_target_run(t)
               IN  /\ r.err = ""
                   /\ r.ret = <<R(0), R(0)>>
                   /\ r.Nf = Nf /\ r.Px = Px
                   /\ r.sp_scale = sp_scale
                   /\ r.sp_index_sui_scaled = sp_index_sui_scaled
                   /\ r.sp_obligation_sui = sp_obligation_sui

\* C13: whenever Nf is zero, current_level() is 1, whatever reserve_sui,
\* sp_obligation_sui and p_sui are.
C13_ZeroSupplyLevelOne ==
    Nf = R(0) => current_level(reserve_sui, p_sui, Nf, Pf) = 1

\* C14: an sp_withdraw that raises leaves the users' records (index snapshot
\* included) and sp_scaled_total exactly as they were.
C14_FailedWithdrawChangesNothing ==
    \A u \in Users, a \in WithdrawInputs :
        LET r == sp_withdraw_run(users, sp_scaled_total, u, a)
        IN  r.err # ""
                => /\ r.users = users
                   /\ r.sp_scaled_total = sp_scaled_total
                   /\ claimable(r.users, sp_index_sui_scaled, u)
                          = claimable(users, sp_index_sui_scaled, u)

\* C15: a protocol_rebalance_L3_to_target call that changes Nf, the pool's
\* scale, index or obligation, or sp_scaled_total returned (b, p) with b > 0, and
\* it lowered Nf by b and the pool total sp_scaled_total * sp_scale by b, raised
\* sp_obligation_sui by p = b * Pf / p_sui and kept sp_scaled_total; so a call
\* that returns (0, 0) or raises changes none of them, and the obligation is
\* never indexed by a rebalance without Nf going down by the same burn.
C15_BurnIndexObligationTied ==
    [][\A t \in TargetInputs :
          (/\ <<Nf, sp_scale, sp_scaled_total, sp_index_sui_scaled, sp_obligation_sui>>'
                  # <<Nf, sp_scale, sp_scaled_total, sp_index_sui_scaled, sp_obligation_sui>>
           /\ reserve_sui' = reserve_sui
           /\ users' = users
           /\ protocol_rebalance_L3_to_target(t))
              => LET r == protocol_rebalance_L3_to_target_run(t)
                     b == r.ret[1]
                     p == r.ret[2]
                 IN  /\ r.err = ""
                     /\ RLt(R(0), b)
                     /\ Nf' = RSub(Nf, b)
                     /\ sp_total_f(sp_scaled_total', sp_scale')
                            = RSub(sp_total_f(sp_scaled_total, sp_scale), b)
                     /\ sp_obligation_sui' = RAdd(sp_obligation_sui, p)
                     /\ p = RDiv(RMul(b, Pf), p_sui)
                     /\ sp_scaled_total' = sp_scaled_total]_vars

\* C15 witness: a second burn has run on a scale the first one had shrunk.
C15_Witness ==
    /\ RLt(sp_scale, Frac(3, 4))
    /\ RLt(R(0), sp_obligation_sui)
    /\ RLt(R(0), Nf)
    /\ RLt(R(0), sp_scaled_total)

C18_OnlyFirstUpdateUnchecked ==
    \A p \in PriceInputs, t \in OracleTsInputs :
        (RLt(R(0), p_sui) /\ update_from_oracle_run(p, t).err = "")
            => /\ ~too_stale(t, last_oracle_ts)
               /\ ~step_too_large(p, p_sui)

\* Sum of the users' scaled shares
RECURSIVE SumScaled(_, _)
SumScaled(S, us) ==
    IF S = {} THEN R(0)
    ELSE LET u == CHOOSE x \in S : TRUE
         IN  RAdd(us[u].sp_scaled, SumScaled(S \ {u}, us))

====
